---------------------------- MODULE Spec2Model ----------------------------
(***************************************************************************)
(* The croissant game engine (src/src/game_model.rs): CroissantGame, its   *)
(* six execute_* operations, end_turn, count_cheeses and is_game_over.     *)
(*                                                                         *)
(* Every money field is a Rust i32.  The arithmetic of the engine is       *)
(* modelled at that width: with overflow checks compiled in (the dev       *)
(* profile) an overflowing operation panics, without them (the release     *)
(* profile) it wraps in two's complement.  The profile is fixed when the   *)
(* program is built, so it is chosen in Init and never changes.            *)
(***************************************************************************)
EXTENDS Integers, Sequences, FiniteSets, TLC

(***************************************************************************)
(* Bounds of the model.                                                    *)
(***************************************************************************)
\* the largest turn limit a configuration of the model sets
MaxTurns == 3
\* the quantities passed to execute_buy_cheese / execute_buy_croissants are 0..MaxQuantity
MaxQuantity == 3

(***************************************************************************)
(* i32                                                                     *)
(***************************************************************************)
I32_MAX == 2147483647
I32_MIN == (-2147483647) - 1

\* a + b overflows the i32 range
add_overflows(a, b) ==
    \/ b > 0 /\ a > I32_MAX - b
    \/ b < 0 /\ a < I32_MIN - b

\* a + b as the release profile computes it (wrapping); no intermediate
\* value leaves the i32 range
add_i32(a, b) ==
    IF b > 0 /\ a > I32_MAX - b THEN I32_MIN + ((a - (I32_MAX - b)) - 1)
    ELSE IF b < 0 /\ a < I32_MIN - b THEN I32_MAX - (((I32_MIN - b) - a) - 1)
    ELSE a + b

\* a - b overflows the i32 range
sub_overflows(a, b) ==
    \/ b > 0 /\ a < I32_MIN + b
    \/ b < 0 /\ a > I32_MAX + b

\* a - b, wrapping
sub_i32(a, b) ==
    IF b > 0 /\ a < I32_MIN + b THEN I32_MAX - (((I32_MIN + b) - a) - 1)
    ELSE IF b < 0 /\ a > I32_MAX + b THEN I32_MIN + ((a - (I32_MAX + b)) - 1)
    ELSE a - b

\* a * n for a count n >= 0, as [val |-> the wrapped product, ovf |-> the
\* exact product leaves the i32 range].  The partial sums of a + a + ... are
\* monotone, so the exact product overflows iff one of the additions does.
RECURSIVE mul_i32(_, _)
mul_i32(a, n) ==
    IF n = 0 THEN [val |-> 0, ovf |-> FALSE]
    ELSE LET r == mul_i32(a, n - 1)
         IN  [val |-> add_i32(r.val, a),
              ovf |-> r.ovf \/ add_overflows(r.val, a)]

\* `quantity as i32` of a u32
as_i32(q) ==
    IF q <= I32_MAX THEN q ELSE ((q - I32_MAX) - 1) + I32_MIN


(***************************************************************************)
(* CroissantGameConfig.  The configuration file is not part of the         *)
(* engine; the model draws every field from a small set of non-negative    *)
(* values, among them the largest i32.  To keep the state space small the  *)
(* two richest starting balances are each paired with one cheese cap, the  *)
(* largest with one maturation threshold, and the price floor above the    *)
(* starting price with one setting of the balance and the cheese fields.   *)
(***************************************************************************)
ConfigValues ==
    [ turns                      : {1, MaxTurns},
      starting_money             : {200, 1000, I32_MAX},
      cook_payoff                : {50},
      cheese_cost                : {100},
      cheese_quantity_maximum    : {2, 5},
      cheese_mature_turns        : {1, 2},
      cheese_payoff              : {150},
      recipe_cost                : {200},
      recipe_dividend            : {10},
      cookbook_cost              : {500},
      cookbook_dividend          : {30},
      croissant_starting_price   : {300},
      croissant_quantity_maximum : {2},
      croissant_price_fall       : {10},
      croissant_price_rise       : {20},
      croissant_minimum_price    : {100, 400} ]

Configs ==
    { c \in ConfigValues :
        /\ c.starting_money = 1000 => c.cheese_quantity_maximum = 5
        /\ c.starting_money = I32_MAX =>
              c.cheese_quantity_maximum = 2 /\ c.cheese_mature_turns = 1
        /\ c.croissant_minimum_price > c.croissant_starting_price =>
              /\ c.starting_money = 200
              /\ c.cheese_quantity_maximum = 2 /\ c.cheese_mature_turns = 1 }

(***************************************************************************)
(* InvalidActionErrorCause, and the two other ways a call ends: Ok(()) and *)
(* a panic on arithmetic overflow.  arg is the payload of the variant      *)
(* (0 when it has none).                                                   *)
(***************************************************************************)
InvalidAction                    == [cause |-> "InvalidAction", arg |-> 0]
ExtraneousQuantity               == [cause |-> "ExtraneousQuantity", arg |-> 0]
Ok                               == [cause |-> "Ok", arg |-> 0]
Panic                            == [cause |-> "Panic", arg |-> 0]
GameOver                         == [cause |-> "GameOver", arg |-> 0]
InvalidQuantity                  == [cause |-> "InvalidQuantity", arg |-> 0]
NoCheeseToSell                   == [cause |-> "NoCheeseToSell", arg |-> 0]
NotEnoughMoney(total_cost)       == [cause |-> "NotEnoughMoney", arg |-> total_cost]
CheeseMaxQuantityExceeded(max)   == [cause |-> "CheeseMaxQuantityExceeded", arg |-> max]
CroissantMaxQuantityExceeded(max) == [cause |-> "CroissantMaxQuantityExceeded", arg |-> max]

Rejections ==
    {"InvalidAction", "ExtraneousQuantity",
     "GameOver", "InvalidQuantity", "NoCheeseToSell", "NotEnoughMoney",
     "CheeseMaxQuantityExceeded", "CroissantMaxQuantityExceeded"}

VARIABLES
    config,           \* CroissantGame.config
    overflow_checks,  \* the build profile: TRUE panics on overflow, FALSE wraps
    turn, money, cheeses, recipes, cookbooks, croissant_price, croissants,
    panicked,         \* a call panicked: the process is gone
    call,             \* history: the last engine call, [op, quantity]
    result,           \* history: what the last call returned
    prev,             \* history: the fields of the game when the last call was made
    bought_at,        \* history: for each cheese, the turn of the call that bought it
    accepted,         \* history: the number of calls that returned Ok(())
    pc,               \* where main is: "prompt", "process" or "done" ("api" without main)
    action            \* main: the text handed to process_action

vars == << config, overflow_checks, turn, money, cheeses, recipes, cookbooks,
           croissant_price, croissants, panicked, call, result, prev, bought_at,
           accepted, pc, action >>

\* the fields of the CroissantGame, as one value
Self ==
    [ turn |-> turn, money |-> money, cheeses |-> cheeses, recipes |-> recipes,
      cookbooks |-> cookbooks, croissant_price |-> croissant_price,
      croissants |-> croissants ]

\* CroissantGame::new
new(c) ==
    [ turn |-> 1, money |-> c.starting_money, cheeses |-> << >>, recipes |-> 0,
      cookbooks |-> 0, croissant_price |-> c.croissant_starting_price,
      croissants |-> 0 ]

\* is_game_over, were the game to end when the turn reaches the limit
is_game_over_at_limit(self) == self.turn >= config.turns

is_game_over(self) == self.turn > config.turns

\* count_loop, were maturity to need an age above the threshold
RECURSIVE count_loop_above_threshold(_, _)
count_loop_above_threshold(ages, n) ==
    IF n = 0 THEN << 0, 0 >>
    ELSE LET c == count_loop_above_threshold(ages, n - 1)
         IN  IF ages[n] > config.cheese_mature_turns
             THEN << c[1] + 1, c[2] >>
             ELSE << c[1], c[2] + 1 >>

\* the loop of count_cheeses over cheeses[1..n]: << mature, non_mature >>
RECURSIVE count_loop(_, _)
count_loop(ages, n) ==
    IF n = 0 THEN << 0, 0 >>
    ELSE LET c == count_loop(ages, n - 1)
         IN  IF ages[n] >= config.cheese_mature_turns
             THEN << c[1] + 1, c[2] >>
             ELSE << c[1], c[2] + 1 >>

\* Returns (mature cheeses, non-mature cheeses)
count_cheeses(self) == count_loop(self.cheeses, Len(self.cheeses))

(***************************************************************************)
(* A call in execution: the game as mutated so far, and whether an         *)
(* arithmetic operation has panicked.  Step is one arithmetic operation    *)
(* followed by the store of its result: skipped once panicked, a panic     *)
(* (nothing stored) when the operation overflows under overflow checks,    *)
(* the store of the wrapped result otherwise.                              *)
(***************************************************************************)
Start(self) == [game |-> self, panicked |-> FALSE]

Step(m, overflows, stored) ==
    IF m.panicked THEN m
    ELSE IF overflow_checks /\ overflows THEN [m EXCEPT !.panicked = TRUE]
    ELSE [m EXCEPT !.game = stored]

Return(m) == [game |-> m.game, result |-> IF m.panicked THEN Panic ELSE Ok]

Err(self, cause) == [game |-> self, result |-> cause]

\* age_cheeses, were it to add 2 to every age
age_cheeses_by_two(m) ==
    IF m.panicked THEN m
    ELSE [game |-> [m.game EXCEPT !.cheeses =
                       [i \in 1..Len(m.game.cheeses) |-> m.game.cheeses[i] + 2]],
          panicked |-> FALSE]

\* for i in 0..self.cheeses.len() { self.cheeses[i] += 1; }
age_cheeses(m) ==
    LET ages  == m.game.cheeses
        over  == {i \in 1..Len(ages) : add_overflows(ages[i], 1)}
        first == IF over = {} THEN Len(ages) + 1
                 ELSE CHOOSE i \in over : \A j \in over : i <= j
        stop  == overflow_checks /\ over # {}
        aged  == [i \in 1..Len(ages) |->
                     IF stop /\ i >= first THEN ages[i] ELSE add_i32(ages[i], 1)]
    IN  IF m.panicked THEN m
        ELSE [game |-> [m.game EXCEPT !.cheeses = aged], panicked |-> stop]

end_turn(m0) ==
    LET m1 == Step(m0, add_overflows(m0.game.turn, 1),
                   [m0.game EXCEPT !.turn = add_i32(@, 1)])
        m2 == age_cheeses(m1)
        rd == mul_i32(config.recipe_dividend, m2.game.recipes)
        m3 == Step(m2, rd.ovf, m2.game)
        m4 == Step(m3, add_overflows(m3.game.money, rd.val),
                   [m3.game EXCEPT !.money = add_i32(@, rd.val)])
        cd == mul_i32(config.cookbook_dividend, m4.game.cookbooks)
        m5 == Step(m4, cd.ovf, m4.game)
    IN  Step(m5, add_overflows(m5.game.money, cd.val),
             [m5.game EXCEPT !.money = add_i32(@, cd.val)])

\* execute_cook, were it not to check for game over
execute_cook_unchecked(self) ==
    LET m1 == Step(Start(self), add_overflows(self.money, config.cook_payoff),
                   [self EXCEPT !.money = add_i32(@, config.cook_payoff)])
    IN  Return(end_turn(m1))

execute_cook(self) ==
    IF is_game_over(self) THEN Err(self, GameOver)
    ELSE LET m1 == Step(Start(self), add_overflows(self.money, config.cook_payoff),
                        [self EXCEPT !.money = add_i32(@, config.cook_payoff)])
         IN  Return(end_turn(m1))

\* execute_buy_cheese, were it to append one cheese whatever the quantity
execute_buy_cheese_single(self, quantity) ==
    IF is_game_over(self) THEN Err(self, GameOver)
    ELSE IF quantity = 0 THEN Err(self, InvalidQuantity)
    ELSE IF quantity > config.cheese_quantity_maximum
    THEN Err(self, CheeseMaxQuantityExceeded(config.cheese_quantity_maximum))
    ELSE LET total_cost == mul_i32(config.cheese_cost, as_i32(quantity))
             m1 == Step(Start(self), total_cost.ovf, self)
             m2 == Step(m1, sub_overflows(self.money, total_cost.val),
                        [self EXCEPT !.money = sub_i32(@, total_cost.val)])
             m3 == Step(m2, FALSE, [m2.game EXCEPT !.cheeses = Append(@, 0)])
         IN  IF m1.panicked THEN Return(m1)
             ELSE IF total_cost.val > self.money
             THEN Err(self, NotEnoughMoney(total_cost.val))
             ELSE Return(end_turn(m3))

\* execute_buy_cheese, were it to refuse a purchase that costs the whole balance
execute_buy_cheese_strict(self, quantity) ==
    IF is_game_over(self) THEN Err(self, GameOver)
    ELSE IF quantity = 0 THEN Err(self, InvalidQuantity)
    ELSE IF quantity > config.cheese_quantity_maximum
    THEN Err(self, CheeseMaxQuantityExceeded(config.cheese_quantity_maximum))
    ELSE LET total_cost == mul_i32(config.cheese_cost, as_i32(quantity))
             m1 == Step(Start(self), total_cost.ovf, self)
             m2 == Step(m1, sub_overflows(self.money, total_cost.val),
                        [self EXCEPT !.money = sub_i32(@, total_cost.val)])
             new_cheeses == [i \in 1..quantity |-> 0]
             m3 == Step(m2, FALSE,
                        [m2.game EXCEPT !.cheeses = @ \o new_cheeses])
         IN  IF m1.panicked THEN Return(m1)
             ELSE IF total_cost.val >= self.money
             THEN Err(self, NotEnoughMoney(total_cost.val))
             ELSE Return(end_turn(m3))

execute_buy_cheese(self, quantity) ==
    IF is_game_over(self) THEN Err(self, GameOver)
    ELSE IF quantity = 0 THEN Err(self, InvalidQuantity)
    ELSE IF quantity > config.cheese_quantity_maximum
    THEN Err(self, CheeseMaxQuantityExceeded(config.cheese_quantity_maximum))
    ELSE LET total_cost == mul_i32(config.cheese_cost, as_i32(quantity))
             m1 == Step(Start(self), total_cost.ovf, self)
             m2 == Step(m1, sub_overflows(self.money, total_cost.val),
                        [self EXCEPT !.money = sub_i32(@, total_cost.val)])
             new_cheeses == [i \in 1..quantity |-> 0]
             m3 == Step(m2, FALSE,
                        [m2.game EXCEPT !.cheeses = @ \o new_cheeses])
         IN  IF m1.panicked THEN Return(m1)
             ELSE IF total_cost.val > self.money
             THEN Err(self, NotEnoughMoney(total_cost.val))
             ELSE Return(end_turn(m3))

\* execute_sell_cheese, were it to return without advancing the turn
execute_sell_cheese_no_end_turn(self) ==
    IF is_game_over(self) THEN Err(self, GameOver)
    ELSE LET mature_cheeses == count_cheeses(self)[1]
             total_gain == mul_i32(config.cheese_payoff, mature_cheeses)
             m1 == Step(Start(self), total_gain.ovf, self)
             m2 == Step(m1, add_overflows(self.money, total_gain.val),
                        [self EXCEPT !.money = add_i32(@, total_gain.val)])
             m3 == Step(m2, FALSE,
                        [m2.game EXCEPT !.cheeses =
                            SelectSeq(@, LAMBDA age : age < config.cheese_mature_turns)])
         IN  IF mature_cheeses = 0 THEN Err(self, NoCheeseToSell)
             ELSE Return(m3)

\* execute_sell_cheese, were it to keep the cheeses whose age equals the threshold
execute_sell_cheese_keeps_threshold(self) ==
    IF is_game_over(self) THEN Err(self, GameOver)
    ELSE LET mature_cheeses == count_cheeses(self)[1]
             total_gain == mul_i32(config.cheese_payoff, mature_cheeses)
             m1 == Step(Start(self), total_gain.ovf, self)
             m2 == Step(m1, add_overflows(self.money, total_gain.val),
                        [self EXCEPT !.money = add_i32(@, total_gain.val)])
             m3 == Step(m2, FALSE,
                        [m2.game EXCEPT !.cheeses =
                            SelectSeq(@, LAMBDA age : age <= config.cheese_mature_turns)])
         IN  IF mature_cheeses = 0 THEN Err(self, NoCheeseToSell)
             ELSE Return(end_turn(m3))

execute_sell_cheese(self) ==
    IF is_game_over(self) THEN Err(self, GameOver)
    ELSE LET mature_cheeses == count_cheeses(self)[1]
             total_gain == mul_i32(config.cheese_payoff, mature_cheeses)
             m1 == Step(Start(self), total_gain.ovf, self)
             m2 == Step(m1, add_overflows(self.money, total_gain.val),
                        [self EXCEPT !.money = add_i32(@, total_gain.val)])
             m3 == Step(m2, FALSE,
                        [m2.game EXCEPT !.cheeses =
                            SelectSeq(@, LAMBDA age : age < config.cheese_mature_turns)])
         IN  IF mature_cheeses = 0 THEN Err(self, NoCheeseToSell)
             ELSE Return(end_turn(m3))

\* execute_publish_recipe, were it to refuse a recipe that costs the whole balance
execute_publish_recipe_strict(self) ==
    IF is_game_over(self) THEN Err(self, GameOver)
    ELSE IF config.recipe_cost >= self.money
    THEN Err(self, NotEnoughMoney(config.recipe_cost))
    ELSE LET m1 == Step(Start(self), sub_overflows(self.money, config.recipe_cost),
                        [self EXCEPT !.money = sub_i32(@, config.recipe_cost)])
             m2 == Step(m1, add_overflows(m1.game.recipes, 1),
                        [m1.game EXCEPT !.recipes = add_i32(@, 1)])
         IN  Return(end_turn(m2))

execute_publish_recipe(self) ==
    IF is_game_over(self) THEN Err(self, GameOver)
    ELSE IF config.recipe_cost > self.money
    THEN Err(self, NotEnoughMoney(config.recipe_cost))
    ELSE LET m1 == Step(Start(self), sub_overflows(self.money, config.recipe_cost),
                        [self EXCEPT !.money = sub_i32(@, config.recipe_cost)])
             m2 == Step(m1, add_overflows(m1.game.recipes, 1),
                        [m1.game EXCEPT !.recipes = add_i32(@, 1)])
         IN  Return(end_turn(m2))

\* execute_publish_cookbook, were it to report the cost of a recipe
execute_publish_cookbook_recipe_cost(self) ==
    IF is_game_over(self) THEN Err(self, GameOver)
    ELSE IF config.cookbook_cost > self.money
    THEN Err(self, NotEnoughMoney(config.recipe_cost))
    ELSE LET m1 == Step(Start(self), sub_overflows(self.money, config.cookbook_cost),
                        [self EXCEPT !.money = sub_i32(@, config.cookbook_cost)])
             m2 == Step(m1, add_overflows(m1.game.cookbooks, 1),
                        [m1.game EXCEPT !.cookbooks = add_i32(@, 1)])
         IN  Return(end_turn(m2))

\* execute_publish_cookbook, were it to count the cookbook as a recipe
execute_publish_cookbook_as_recipe(self) ==
    IF is_game_over(self) THEN Err(self, GameOver)
    ELSE IF config.cookbook_cost > self.money
    THEN Err(self, NotEnoughMoney(config.cookbook_cost))
    ELSE LET m1 == Step(Start(self), sub_overflows(self.money, config.cookbook_cost),
                        [self EXCEPT !.money = sub_i32(@, config.cookbook_cost)])
             m2 == Step(m1, add_overflows(m1.game.recipes, 1),
                        [m1.game EXCEPT !.recipes = add_i32(@, 1)])
         IN  Return(end_turn(m2))

\* execute_publish_cookbook, were it to debit the cost before checking the balance
execute_publish_cookbook_debit_first(self) ==
    IF is_game_over(self) THEN Err(self, GameOver)
    ELSE LET debited == [self EXCEPT !.money = sub_i32(@, config.cookbook_cost)]
             m1 == Step(Start(debited), add_overflows(debited.cookbooks, 1),
                        [debited EXCEPT !.cookbooks = add_i32(@, 1)])
         IN  IF debited.money < 0
             THEN Err(debited, NotEnoughMoney(config.cookbook_cost))
             ELSE Return(end_turn(m1))

execute_publish_cookbook(self) ==
    IF is_game_over(self) THEN Err(self, GameOver)
    ELSE IF config.cookbook_cost > self.money
    THEN Err(self, NotEnoughMoney(config.cookbook_cost))
    ELSE LET m1 == Step(Start(self), sub_overflows(self.money, config.cookbook_cost),
                        [self EXCEPT !.money = sub_i32(@, config.cookbook_cost)])
             m2 == Step(m1, add_overflows(m1.game.cookbooks, 1),
                        [m1.game EXCEPT !.cookbooks = add_i32(@, 1)])
         IN  Return(end_turn(m2))

\* execute_buy_croissants, were it to check the balance before the cap
execute_buy_croissants_money_first(self, quantity) ==
    IF is_game_over(self) THEN Err(self, GameOver)
    ELSE IF quantity = 0 THEN Err(self, InvalidQuantity)
    ELSE LET total_cost == mul_i32(self.croissant_price, as_i32(quantity))
             m1 == Step(Start(self), total_cost.ovf, self)
             m2 == Step(m1, sub_overflows(self.money, total_cost.val),
                        [self EXCEPT !.money = sub_i32(@, total_cost.val)])
             m3 == Step(m2, add_overflows(m2.game.croissants, as_i32(quantity)),
                        [m2.game EXCEPT !.croissants = add_i32(@, as_i32(quantity))])
         IN  IF m1.panicked THEN Return(m1)
             ELSE IF total_cost.val > self.money
             THEN Err(self, NotEnoughMoney(total_cost.val))
             ELSE IF quantity > config.croissant_quantity_maximum
             THEN Err(self, CroissantMaxQuantityExceeded(config.croissant_quantity_maximum))
             ELSE Return(end_turn(m3))

execute_buy_croissants(self, quantity) ==
    IF is_game_over(self) THEN Err(self, GameOver)
    ELSE IF quantity = 0 THEN Err(self, InvalidQuantity)
    ELSE IF quantity > config.croissant_quantity_maximum
    THEN Err(self, CroissantMaxQuantityExceeded(config.croissant_quantity_maximum))
    ELSE LET total_cost == mul_i32(self.croissant_price, as_i32(quantity))
             m1 == Step(Start(self), total_cost.ovf, self)
             m2 == Step(m1, sub_overflows(self.money, total_cost.val),
                        [self EXCEPT !.money = sub_i32(@, total_cost.val)])
             m3 == Step(m2, add_overflows(m2.game.croissants, as_i32(quantity)),
                        [m2.game EXCEPT !.croissants = add_i32(@, as_i32(quantity))])
         IN  IF m1.panicked THEN Return(m1)
             ELSE IF total_cost.val > self.money
             THEN Err(self, NotEnoughMoney(total_cost.val))
             ELSE Return(end_turn(m3))

(***************************************************************************)
(* The state machine: one action per engine operation.  A call is made on  *)
(* the game as it is; its outcome becomes the new game and the returned    *)
(* value.  The engine accepts calls in any state, also after game over;    *)
(* after a panic the process is gone and nothing more happens.             *)
(***************************************************************************)
Quantities == 0..MaxQuantity

Init ==
    /\ config \in Configs
    /\ overflow_checks \in BOOLEAN
    /\ turn = new(config).turn
    /\ money = new(config).money
    /\ cheeses = new(config).cheeses
    /\ recipes = new(config).recipes
    /\ cookbooks = new(config).cookbooks
    /\ croissant_price = new(config).croissant_price
    /\ croissants = new(config).croissants
    /\ panicked = FALSE
    /\ call = [op |-> "new", quantity |-> 0]
    /\ result = Ok
    /\ prev = new(config)
    /\ bought_at = << >>
    /\ accepted = 0
    /\ pc = "api"
    /\ action = << >>

\* the turns of purchase of the cheeses the call keeps, then of those it adds
Bookkeeping(out) ==
    LET kept  == IF Len(out.game.cheeses) < Len(cheeses)
                 THEN {i \in 1..Len(cheeses) : cheeses[i] < config.cheese_mature_turns}
                 ELSE 1..Len(cheeses)
        RECURSIVE keep(_)
        keep(n) == IF n = 0 THEN << >>
                   ELSE IF n \in kept THEN Append(keep(n - 1), bought_at[n])
                   ELSE keep(n - 1)
        old   == keep(Len(cheeses))
    IN  old \o [i \in 1..(Len(out.game.cheeses) - Len(old)) |-> turn]

\* the call `op(quantity)` ended as `out`
Called(op, quantity, out) ==
    /\ turn' = out.game.turn
    /\ money' = out.game.money
    /\ cheeses' = out.game.cheeses
    /\ recipes' = out.game.recipes
    /\ cookbooks' = out.game.cookbooks
    /\ croissant_price' = out.game.croissant_price
    /\ croissants' = out.game.croissants
    /\ panicked' = (out.result = Panic)
    /\ call' = [op |-> op, quantity |-> quantity]
    /\ result' = out.result
    /\ prev' = Self
    /\ bought_at' = Bookkeeping(out)
    /\ accepted' = IF out.result = Ok THEN accepted + 1 ELSE accepted
    /\ UNCHANGED << config, overflow_checks >>

Cook ==
    /\ ~panicked
    /\ Called("cook", 0, execute_cook(Self))
    /\ UNCHANGED << pc, action >>

BuyCheese ==
    /\ ~panicked
    /\ \E quantity \in Quantities :
          Called("buy_cheese", quantity, execute_buy_cheese(Self, quantity))
    /\ UNCHANGED << pc, action >>

SellCheese ==
    /\ ~panicked
    /\ Called("sell_cheese", 0, execute_sell_cheese(Self))
    /\ UNCHANGED << pc, action >>

PublishRecipe ==
    /\ ~panicked
    /\ Called("publish_recipe", 0, execute_publish_recipe(Self))
    /\ UNCHANGED << pc, action >>

PublishCookbook ==
    /\ ~panicked
    /\ Called("publish_cookbook", 0, execute_publish_cookbook(Self))
    /\ UNCHANGED << pc, action >>

BuyCroissants ==
    /\ ~panicked
    /\ \E quantity \in Quantities :
          Called("buy_croissants", quantity, execute_buy_croissants(Self, quantity))
    /\ UNCHANGED << pc, action >>

Next ==
    \/ Cook
    \/ BuyCheese
    \/ SellCheese
    \/ PublishRecipe
    \/ PublishCookbook
    \/ BuyCroissants

Spec == Init /\ [][Next]_vars

(***************************************************************************)
(* Vocabulary of the properties.  A state reached by a call shows the call *)
(* (call), the game it was made on (prev), the game it left (Self) and     *)
(* what it returned (result).  Amounts are those of the i32 fields: a sum  *)
(* that leaves the i32 range is the wrapped sum (add_i32), and a call that *)
(* panics returns nothing, so it is neither accepted nor rejected.         *)
(***************************************************************************)
Called_     == call.op # "new"
Accepted    == Called_ /\ result = Ok
Rejected    == result.cause \in Rejections
WasOver     == prev.turn > config.turns
WasRunning  == prev.turn <= config.turns

\* how many of the ages are at or above / below the maturation threshold
NMature(ages) ==
    Cardinality({i \in 1..Len(ages) : ages[i] >= config.cheese_mature_turns})
NNonMature(ages) ==
    Cardinality({i \in 1..Len(ages) : ages[i] < config.cheese_mature_turns})

OneOlder(ages) == [i \in 1..Len(ages) |-> ages[i] + 1]
NonMatureOf(ages) == SelectSeq(ages, LAMBDA age : age < config.cheese_mature_turns)

\* the dividends one turn advancement credits in the current state
Dividends ==
    recipes * config.recipe_dividend + cookbooks * config.cookbook_dividend

\* the balance and the cheeses an accepted call leaves before it advances the turn
MoneyAfterEffect ==
    CASE call.op = "cook" -> add_i32(prev.money, config.cook_payoff)
      [] call.op = "buy_cheese" -> prev.money - config.cheese_cost * call.quantity
      [] call.op = "sell_cheese" ->
             add_i32(prev.money, NMature(prev.cheeses) * config.cheese_payoff)
      [] call.op = "publish_recipe" -> prev.money - config.recipe_cost
      [] call.op = "publish_cookbook" -> prev.money - config.cookbook_cost
      [] call.op = "buy_croissants" -> prev.money - prev.croissant_price * call.quantity

CheesesAfterEffect ==
    CASE call.op = "buy_cheese" -> prev.cheeses \o [i \in 1..call.quantity |-> 0]
      [] call.op = "sell_cheese" -> NonMatureOf(prev.cheeses)
      [] OTHER -> prev.cheeses

(***************************************************************************)
(* C1  With every configuration field non-negative, money >= 0 in every    *)
(* reachable state, whatever engine calls are made.                        *)
(* Violated: the balance is an i32 and the credits are not range-checked.  *)
(***************************************************************************)
MoneyNeverNegative == money >= 0

\* what does hold: the balance is never negative unless a credit has left
\* the i32 range, which in this model takes the largest starting balance
MoneyNeverNegativeInRange == config.starting_money < I32_MAX => money >= 0

(***************************************************************************)
(* C2  Once the game is over (turn > turns), every engine call, with any   *)
(* quantity, returns GameOver and leaves every field of the game as it     *)
(* was; this holds of every call made in such a state, so of any number of *)
(* repetitions.                                                            *)
(***************************************************************************)
GameOverRejectsEveryCall ==
    (Called_ /\ WasOver) => (result = GameOver /\ Self = prev)

\* a buy with quantity 0 made after game over: GameOver, not InvalidQuantity
GameOverRejectionReached ==
    /\ WasOver /\ call = [op |-> "buy_croissants", quantity |-> 0]
    /\ result = GameOver
    /\ Len(cheeses) > 0

(***************************************************************************)
(* C3  A call that returns a rejection has changed no field of the game:   *)
(* the turn is not advanced, no cheese aged, no dividend credited.         *)
(***************************************************************************)
RejectionChangesNothing == Rejected => Self = prev

\* a rejection in a running game that owns cheese and a recipe
RejectionWithAssetsReached ==
    /\ WasRunning /\ result.cause = "NotEnoughMoney"
    /\ Len(prev.cheeses) > 0 /\ prev.recipes > 0

(***************************************************************************)
(* C4  Every accepted call advances the turn exactly once: turn is one     *)
(* higher, every cheese owned after the call's effect is one turn older,   *)
(* and the dividends recipes * recipe_dividend + cookbooks *               *)
(* cookbook_dividend are added once to the balance the effect left.        *)
(***************************************************************************)
TurnAdvancedExactlyOnce ==
    Accepted =>
        /\ turn = prev.turn + 1
        /\ cheeses = OneOlder(CheesesAfterEffect)
        /\ money = add_i32(MoneyAfterEffect, Dividends)

\* an accepted call of a game that owns cheese and a recipe
TurnAdvanceReached ==
    /\ Accepted /\ Len(prev.cheeses) > 0 /\ prev.recipes > 0

(***************************************************************************)
(* C5  The outcome of buy cheese(qty) and buy croissants(qty) follows a    *)
(* fixed precedence: GameOver if the game is over; else InvalidQuantity if *)
(* qty = 0; else the max-quantity error if qty > cap; else NotEnoughMoney  *)
(* if unit price * qty > money; accepted exactly when none of these holds. *)
(***************************************************************************)
BuyOutcome(unit, cap, exceeded) ==
    IF prev.turn > config.turns THEN "GameOver"
    ELSE IF call.quantity = 0 THEN "InvalidQuantity"
    ELSE IF call.quantity > cap THEN exceeded
    ELSE IF unit * call.quantity > prev.money THEN "NotEnoughMoney"
    ELSE "Ok"

BuyRejectionPrecedence ==
    /\ (call.op = "buy_cheese" /\ result # Panic) =>
          result.cause = BuyOutcome(config.cheese_cost, config.cheese_quantity_maximum,
                                    "CheeseMaxQuantityExceeded")
    /\ (call.op = "buy_croissants" /\ result # Panic) =>
          result.cause = BuyOutcome(prev.croissant_price,
                                    config.croissant_quantity_maximum,
                                    "CroissantMaxQuantityExceeded")

\* over the cap and unaffordable at once: only the cap is reported
TwoFailuresAtOnceReached ==
    /\ call.op = "buy_cheese" /\ WasRunning
    /\ call.quantity > config.cheese_quantity_maximum
    /\ config.cheese_cost * call.quantity > prev.money
    /\ result.cause = "CheeseMaxQuantityExceeded"

(***************************************************************************)
(* C6  As claimed: after any accepted buy cheese(n), for any maturation    *)
(* threshold, count_cheeses reports a non-mature count exactly n higher    *)
(* than before and the same mature count.                                  *)
(* Violated: the purchase's own turn advancement ages every cheese, the    *)
(* new ones included, before the call returns.                             *)
(***************************************************************************)
BuyCheeseRaisesNonMatureOnly ==
    (call.op = "buy_cheese" /\ result = Ok) =>
        count_cheeses(Self) =
            << count_cheeses(prev)[1], count_cheeses(prev)[2] + call.quantity >>

(***************************************************************************)
(* C6, amended  After any accepted buy cheese(n) the number of cheeses     *)
(* owned is exactly n higher and count_cheeses reports the counts of the   *)
(* cheeses owned before, each one turn older, together with n cheeses of   *)
(* age 1.  So the non-mature count is n higher and the mature count        *)
(* unchanged when the threshold is above 1 and no cheese owned before had  *)
(* age threshold - 1.                                                      *)
(***************************************************************************)
BuyCheeseCounts ==
    (call.op = "buy_cheese" /\ result = Ok) =>
        LET before == count_cheeses(prev)
            after  == count_cheeses(Self)
            older  == OneOlder(prev.cheeses)
            fresh  == [i \in 1..call.quantity |-> 1]
        IN  /\ Len(cheeses) = Len(prev.cheeses) + call.quantity
            /\ after[1] + after[2] = before[1] + before[2] + call.quantity
            /\ after = << NMature(older) + NMature(fresh),
                          NNonMature(older) + NNonMature(fresh) >>
            /\ ( /\ config.cheese_mature_turns > 1
                 /\ \A i \in 1..Len(prev.cheeses) :
                       prev.cheeses[i] # config.cheese_mature_turns - 1 )
               => after = << before[1], before[2] + call.quantity >>

\* a purchase, under threshold 2, by a game that owns a mature cheese
BuyCheeseBesideMatureReached ==
    /\ call.op = "buy_cheese" /\ result = Ok /\ call.quantity > 0
    /\ config.cheese_mature_turns = 2
    /\ Len(prev.cheeses) > 0
    /\ \A i \in 1..Len(prev.cheeses) : prev.cheeses[i] >= 2

(***************************************************************************)
(* C7  Sell mature cheese, called while the game is running, returns       *)
(* NoCheeseToSell exactly when no owned cheese has reached the threshold   *)
(* (even if younger cheeses are owned); an accepted sale credits           *)
(* mature_count * cheese_payoff, removes every cheese whose age is >= the  *)
(* threshold and keeps, in order, every cheese whose age is below it.      *)
(***************************************************************************)
SellCheeseRule ==
    (call.op = "sell_cheese" /\ WasRunning) =>
        /\ result = NoCheeseToSell <=> NMature(prev.cheeses) = 0
        /\ result.cause \in {"NoCheeseToSell", "Ok", "Panic"}
        /\ result = Ok =>
              /\ money = add_i32(add_i32(prev.money,
                                         NMature(prev.cheeses) * config.cheese_payoff),
                                 Dividends)
              /\ cheeses = OneOlder(NonMatureOf(prev.cheeses))
              /\ Len(cheeses) = NNonMature(prev.cheeses)

\* an accepted sale by a game that owns mature and non-mature cheese
MixedSaleReached ==
    /\ call.op = "sell_cheese" /\ result = Ok
    /\ NMature(prev.cheeses) > 0 /\ NNonMature(prev.cheeses) > 0

\* a rejected sale by a game that owns non-mature cheese only
NothingMatureReached ==
    /\ call.op = "sell_cheese" /\ result = NoCheeseToSell /\ Len(prev.cheeses) > 0

(***************************************************************************)
(* C8  A cheese bought by a call accepted at turn t counts as non-mature   *)
(* while turn < t + cheese_mature_turns and as mature from turn            *)
(* t + cheese_mature_turns on, for as long as it is owned; count_cheeses   *)
(* returns (number of ages >= threshold, number of ages < threshold),      *)
(* which sum to the number of cheeses owned.                               *)
(***************************************************************************)
MaturityFollowsPurchaseTurn ==
    LET n     == Len(cheeses)
        due   == {i \in 1..n : turn >= bought_at[i] + config.cheese_mature_turns}
        early == {i \in 1..n : turn < bought_at[i] + config.cheese_mature_turns}
        count == count_cheeses(Self)
    IN  /\ Len(bought_at) = n
        /\ \A i \in 1..n : (cheeses[i] >= config.cheese_mature_turns) <=> (i \in due)
        /\ count = << Cardinality(due), Cardinality(early) >>
        /\ count = << NMature(cheeses), NNonMature(cheeses) >>
        /\ count[1] + count[2] = n

\* a cheese on the very turn it matures, beside a younger one
JustMaturedReached ==
    /\ config.cheese_mature_turns = 2
    /\ \E i, j \in 1..Len(cheeses) :
          /\ turn = bought_at[i] + config.cheese_mature_turns
          /\ turn < bought_at[j] + config.cheese_mature_turns
    /\ count_cheeses(Self) = << 1, 1 >>

(***************************************************************************)
(* C9  As claimed: publishing a recipe when money equals recipe_cost is    *)
(* accepted, debits the cost and increments recipes by 1, and the new      *)
(* recipe's dividend is not credited before a subsequent action: when the  *)
(* publish action completes the balance holds only the dividends of the    *)
(* assets owned before it (0 with none, as in the scenario).               *)
(* Violated: the publish action's own turn advancement already counts the  *)
(* new recipe.                                                             *)
(***************************************************************************)
PublishDividendStartsNextAction ==
    (call.op = "publish_recipe" /\ WasRunning /\ prev.money = config.recipe_cost) =>
        /\ result = Ok
        /\ recipes = prev.recipes + 1
        /\ money = prev.recipes * config.recipe_dividend
                     + prev.cookbooks * config.cookbook_dividend

\* the first call of the scenario's game is publish recipe
PublishScenario ==
    /\ config.recipe_cost = 200 /\ config.recipe_dividend = 10
    /\ config.starting_money = 200
    /\ prev = new(config) /\ call.op = "publish_recipe"

\* an accepted call follows the scenario's publish
AfterPublishScenario ==
    /\ config.recipe_cost = 200 /\ config.recipe_dividend = 10
    /\ config.starting_money = 200
    /\ prev.turn = 2 /\ prev.recipes = 1 /\ prev.cookbooks = 0 /\ prev.money = 10
    /\ Accepted

(***************************************************************************)
(* C9, amended  Publishing a recipe when money equals recipe_cost is       *)
(* accepted, debits the cost and increments recipes by 1; the publish      *)
(* action's own turn advancement credits the dividends, that of the new    *)
(* recipe included, so the balance is recipes * recipe_dividend +          *)
(* cookbooks * cookbook_dividend when the action completes, and the turn   *)
(* advancement of each subsequent accepted action credits them again       *)
(* (scenario: money is 10 after publishing, and the next accepted action   *)
(* adds a further 10 to what its own effect leaves).                       *)
(***************************************************************************)
PublishDividendStartsAtOnce ==
    /\ (call.op = "publish_recipe" /\ WasRunning /\ prev.money = config.recipe_cost) =>
          /\ result = Ok
          /\ recipes = prev.recipes + 1
          /\ cookbooks = prev.cookbooks
          /\ money = recipes * config.recipe_dividend
                       + cookbooks * config.cookbook_dividend
    /\ PublishScenario => (money = 10 /\ recipes = 1 /\ turn = 2)
    /\ AfterPublishScenario => (recipes = 1 => money = MoneyAfterEffect + 10)

PublishAtExactCostReached == PublishScenario /\ result = Ok /\ money = 10

CookAfterPublishReached == AfterPublishScenario /\ call.op = "cook" /\ money = 70

(***************************************************************************)
(* C10  As claimed: an accepted buy cheese(qty) debits cheese_cost * qty   *)
(* and advances the turn by 1; a purchase costing the whole balance is     *)
(* accepted; with starting money 1000, cheese cost 100, cap 5 and no       *)
(* recipes or cookbooks, buying 3 cheese as the first action succeeds with *)
(* money 700, non-mature count 3 and turn 2.                               *)
(* Violated under a maturation threshold of 1 or less: the three cheeses   *)
(* have age 1 when the call returns and count as mature.                   *)
(***************************************************************************)
BuyThreeScenario ==
    /\ config.starting_money = 1000 /\ config.cheese_cost = 100
    /\ config.cheese_quantity_maximum = 5
    /\ prev = new(config) /\ call = [op |-> "buy_cheese", quantity |-> 3]

BuyCheeseDebit ==
    /\ (call.op = "buy_cheese" /\ result = Ok) =>
          /\ money = add_i32(prev.money - config.cheese_cost * call.quantity, Dividends)
          /\ turn = prev.turn + 1
    /\ ( /\ call.op = "buy_cheese" /\ WasRunning
         /\ call.quantity > 0 /\ call.quantity <= config.cheese_quantity_maximum
         /\ config.cheese_cost * call.quantity = prev.money )
       => result = Ok

BuyThreeLeavesThreeNonMature ==
    /\ BuyCheeseDebit
    /\ BuyThreeScenario =>
          /\ result = Ok /\ money = 700 /\ turn = 2
          /\ count_cheeses(Self)[2] = 3

(***************************************************************************)
(* C10, amended  The same, with the scenario's non-mature count of 3 for a *)
(* maturation threshold of at least 2; with a threshold of 1 or less the   *)
(* purchase leaves mature count 3 and non-mature count 0.                  *)
(***************************************************************************)
BuyThreeByThreshold ==
    /\ BuyCheeseDebit
    /\ BuyThreeScenario =>
          /\ result = Ok /\ money = 700 /\ turn = 2
          /\ count_cheeses(Self) =
                IF config.cheese_mature_turns >= 2 THEN << 0, 3 >> ELSE << 3, 0 >>

BuyThreeReached ==
    /\ BuyThreeScenario /\ config.cheese_mature_turns = 2
    /\ result = Ok /\ money = 700 /\ count_cheeses(Self) = << 0, 3 >>

\* a purchase that costs the whole balance
WholeBalanceSpentReached ==
    /\ call.op = "buy_cheese" /\ result = Ok /\ prev.money > 0
    /\ config.cheese_cost * call.quantity = prev.money

(***************************************************************************)
(* C11  Game over is permanent and entered only by an accepted action:     *)
(* no call lowers the turn, is_game_over() is true exactly when turn >     *)
(* turns, a game that was over before a call is over after it, and a call  *)
(* that takes a running game over the limit is not a rejected one.         *)
(***************************************************************************)
GameOverIsPermanent ==
    /\ turn >= prev.turn
    /\ is_game_over(Self) <=> turn > config.turns
    /\ is_game_over(prev) <=> WasOver
    /\ WasOver => is_game_over(Self)
    /\ (WasRunning /\ is_game_over(Self)) => (~Rejected /\ turn = prev.turn + 1)
    /\ Rejected => (is_game_over(Self) <=> is_game_over(prev))

\* a call made after the last turn of the longest game
CallAfterGameOverReached ==
    /\ config.turns = MaxTurns /\ WasOver /\ Called_ /\ is_game_over(Self)

\* the accepted call that ends the game
GameEndsReached ==
    /\ WasRunning /\ is_game_over(Self) /\ Accepted

(***************************************************************************)
(* C12  In every reachable state croissant_price >=                        *)
(* croissant_minimum_price.                                                *)
(* Violated: the engine never reads croissant_minimum_price; new() takes   *)
(* the starting price as it is.                                            *)
(***************************************************************************)
PriceAtLeastMinimum == croissant_price >= config.croissant_minimum_price

\* what does hold: no call changes the price
PriceIsStartingPrice == croissant_price = config.croissant_starting_price

(***************************************************************************)
(* C13  The turn advancement of every accepted action drifts the croissant *)
(* price: up when the action bought croissants, down when it did not, and  *)
(* never below croissant_minimum_price.                                    *)
(* Violated: end_turn does not touch the price, and no code reads          *)
(* croissant_price_rise, croissant_price_fall or croissant_minimum_price.  *)
(***************************************************************************)
PriceDriftsEveryTurn ==
    (Accepted /\ prev.croissant_price >= config.croissant_minimum_price) =>
        IF call.op = "buy_croissants"
        THEN config.croissant_price_rise > 0 => croissant_price > prev.croissant_price
        ELSE /\ croissant_price >= config.croissant_minimum_price
             /\ ( /\ config.croissant_price_fall > 0
                  /\ prev.croissant_price > config.croissant_minimum_price )
                => croissant_price < prev.croissant_price

(***************************************************************************)
(* C15  A rejection carries the data that explains it: NotEnoughMoney      *)
(* carries the total cost of the attempted purchase, which is above the    *)
(* balance; CheeseMaxQuantityExceeded and CroissantMaxQuantityExceeded     *)
(* carry the cap of that commodity, which is below the quantity asked for. *)
(***************************************************************************)
AttemptedCost ==
    CASE call.op = "buy_cheese" -> config.cheese_cost * call.quantity
      [] call.op = "buy_croissants" -> prev.croissant_price * call.quantity
      [] call.op = "publish_recipe" -> config.recipe_cost
      [] call.op = "publish_cookbook" -> config.cookbook_cost
      [] OTHER -> -1

RejectionsCarryData ==
    /\ result.cause = "NotEnoughMoney" =>
          /\ call.op \in {"buy_cheese", "buy_croissants", "publish_recipe",
                          "publish_cookbook"}
          /\ result.arg = AttemptedCost
          /\ result.arg > prev.money /\ result.arg > money
    /\ result.cause = "CheeseMaxQuantityExceeded" =>
          /\ call.op = "buy_cheese"
          /\ result.arg = config.cheese_quantity_maximum
          /\ result.arg < call.quantity
    /\ result.cause = "CroissantMaxQuantityExceeded" =>
          /\ call.op = "buy_croissants"
          /\ result.arg = config.croissant_quantity_maximum
          /\ result.arg < call.quantity

\* two croissants at 300 each asked for with less than 600
CostReportedReached ==
    /\ call = [op |-> "buy_croissants", quantity |-> 2]
    /\ result = NotEnoughMoney(600) /\ money > 0

\* a cookbook asked for with less than its cost
CookbookCostReportedReached ==
    /\ call.op = "publish_cookbook" /\ result = NotEnoughMoney(config.cookbook_cost)

(***************************************************************************)
(* C17  In every reachable state the age of each owned cheese is the       *)
(* current turn minus the turn of the call that bought it: 0 when bought,  *)
(* one more after every accepted call, the purchase itself included, and   *)
(* unchanged by a rejected call.                                           *)
(***************************************************************************)
AgeIsTurnsSincePurchase ==
    /\ Len(bought_at) = Len(cheeses)
    /\ \A i \in 1..Len(cheeses) :
          /\ cheeses[i] = turn - bought_at[i]
          /\ bought_at[i] >= 1 /\ bought_at[i] < turn
    /\ Rejected => cheeses = prev.cheeses
    /\ Accepted => cheeses = OneOlder(CheesesAfterEffect)

\* two cheeses bought at different turns, one of them two turns old
TwoAgesReached ==
    /\ Accepted
    /\ \E i, j \in 1..Len(cheeses) : cheeses[i] = 2 /\ cheeses[j] = 1

(***************************************************************************)
(* C19  With a turn limit of at least 1, the turn is 1 plus the number of  *)
(* calls accepted so far (in every state of a process that has not         *)
(* panicked), and 1 <= turn <= turns + 1 whatever calls are made.          *)
(***************************************************************************)
TurnCountsAcceptedCalls ==
    config.turns >= 1 =>
        /\ ~panicked => turn = 1 + accepted
        /\ 1 <= turn /\ turn <= config.turns + 1

\* the longest game is over and one more call has been made
TurnAtLimitPlusOneReached ==
    /\ config.turns = MaxTurns /\ turn = config.turns + 1
    /\ accepted = MaxTurns /\ result = GameOver

(***************************************************************************)
(* C20  Each call that returns changes only its own asset: recipes only by *)
(* +1 on an accepted publish recipe, cookbooks only by +1 on an accepted   *)
(* publish cookbook, croissants only by +qty on an accepted buy            *)
(* croissants(qty), the number of cheeses only on an accepted buy cheese   *)
(* or sell cheese; cook leaves recipes, cookbooks, croissants,             *)
(* croissant_price and the number of cheeses as they were and adds         *)
(* cook_payoff and the turn's dividends to money.                          *)
(***************************************************************************)
EachCallChangesItsOwnAsset ==
    result # Panic =>
        /\ recipes = prev.recipes
                       + (IF Accepted /\ call.op = "publish_recipe" THEN 1 ELSE 0)
        /\ cookbooks = prev.cookbooks
                       + (IF Accepted /\ call.op = "publish_cookbook" THEN 1 ELSE 0)
        /\ croissants = prev.croissants
                       + (IF Accepted /\ call.op = "buy_croissants"
                          THEN call.quantity ELSE 0)
        /\ croissants >= prev.croissants
        /\ Len(cheeses) # Len(prev.cheeses) =>
              (Accepted /\ call.op \in {"buy_cheese", "sell_cheese"})
        /\ (Accepted /\ call.op = "cook") =>
              /\ croissant_price = prev.croissant_price
              /\ Len(cheeses) = Len(prev.cheeses)
              /\ money = add_i32(add_i32(prev.money, config.cook_payoff), Dividends)

\* an accepted cook by a game that owns a recipe and croissants
CookBesideAssetsReached ==
    /\ Accepted /\ call.op = "cook"
    /\ prev.recipes > 0 /\ prev.croissants > 0

(***************************************************************************)
(* format_money: format!("${}.{:02}", raw_money / 100, raw_money % 100).   *)
(* Text is a sequence of one-character strings.  Rust's / and % on i32     *)
(* truncate toward zero, so the remainder has the sign of the dividend;    *)
(* {:02} pads with zeros to a width of 2, the sign counted in the width.   *)
(***************************************************************************)
DigitChars == << "0", "1", "2", "3", "4", "5", "6", "7", "8", "9" >>

\* raw / divisor in Rust, divisor > 0
div_i32(raw, divisor) ==
    IF raw >= 0 \/ raw % divisor = 0 THEN raw \div divisor
    ELSE (raw \div divisor) + 1

\* raw % divisor in Rust, divisor > 0
rem_i32(raw, divisor) ==
    IF raw >= 0 \/ raw % divisor = 0 THEN raw % divisor
    ELSE (raw % divisor) - divisor

RECURSIVE fmt_unsigned(_)
fmt_unsigned(n) ==
    IF n < 10 THEN << DigitChars[n + 1] >>
    ELSE fmt_unsigned(n \div 10) \o << DigitChars[(n % 10) + 1] >>

\* "{}" of an i32
fmt_display(n) == IF n >= 0 THEN fmt_unsigned(n) ELSE << "-" >> \o fmt_unsigned(-n)

\* "{:02}" of an i32
fmt_width2(n) ==
    LET digits == fmt_unsigned(IF n >= 0 THEN n ELSE -n)
        padded == IF Len(digits) + (IF n < 0 THEN 1 ELSE 0) < 2
                  THEN << "0" >> \o digits ELSE digits
    IN  IF n < 0 THEN << "-" >> \o padded ELSE padded

format_money(raw_money) ==
    << "$" >> \o fmt_display(div_i32(raw_money, 100)) \o << "." >>
              \o fmt_width2(rem_i32(raw_money, 100))

\* the money values the status line and describe() hand to format_money
DisplayedMoney ==
    {money, croissant_price}
        \cup (IF result.cause = "NotEnoughMoney" THEN {result.arg} ELSE {})

IsDigit(ch) == \E d \in 1..Len(DigitChars) : DigitChars[d] = ch

\* text = <whole part> "." <two digits>, after the currency sign
TwoDigitMinorPart(text, raw_money) ==
    \E whole \in {fmt_display(div_i32(raw_money, 100))} :
        /\ Len(text) = Len(whole) + 4
        /\ SubSeq(text, 2, Len(whole) + 1) = whole
        /\ text[Len(whole) + 2] = "."
        /\ IsDigit(text[Len(whole) + 3]) /\ IsDigit(text[Len(whole) + 4])

(***************************************************************************)
(* C16  Every money value shown (the balance, the croissant price, the     *)
(* amount in NotEnoughMoney) is rendered by format_money as the whole part *)
(* (value / 100), a dot, and the minor part as exactly two digits 00..99.  *)
(***************************************************************************)
MoneyShownWithTwoDigitMinorPart ==
    \A raw_money \in DisplayedMoney :
        TwoDigitMinorPart(format_money(raw_money), raw_money)

\* the same for the values that are not negative: holds
NonNegativeMoneyShownWithTwoDigitMinorPart ==
    \A raw_money \in DisplayedMoney :
        raw_money >= 0 =>
            /\ TwoDigitMinorPart(format_money(raw_money), raw_money)
            /\ format_money(raw_money)
                 = << "$" >> \o fmt_unsigned(raw_money \div 100) \o << "." >>
                     \o << DigitChars[((raw_money % 100) \div 10) + 1],
                           DigitChars[(raw_money % 10) + 1] >>

\* a balance of 10.60 is shown as $10.60, one of 2.00 as $2.00
FormatMoneyExamples ==
    /\ format_money(1060) = << "$", "1", "0", ".", "6", "0" >>
    /\ format_money(200) = << "$", "2", ".", "0", "0" >>
    /\ format_money(5) = << "$", "0", ".", "0", "5" >>
    /\ format_money(-2147483599)
         = << "$", "-", "2", "1", "4", "7", "4", "8", "3", "5", ".", "-", "9", "9" >>
    /\ format_money(-5) = << "$", "0", ".", "-", "5" >>

(***************************************************************************)
(* C18  The engine never gets stuck before game over: in every state where *)
(* the game is in progress a cook call is accepted.                        *)
(***************************************************************************)
CookAcceptedWhileInProgress ==
    (call.op = "cook" /\ WasRunning) => result = Ok

\* the same, for the builds in which arithmetic overflow does not panic: holds
CookAcceptedWithoutOverflowChecks ==
    (~overflow_checks /\ call.op = "cook" /\ WasRunning) => result = Ok

\* no call is ever fatal
NoCallPanics == ~panicked

(***************************************************************************)
(* The text interface (src/src/main.rs).  Text is a sequence of            *)
(* one-character strings.                                                  *)
(***************************************************************************)
IsSpace(ch) == ch \in {" ", "\t", "\n"}

RECURSIVE trim_start(_)
trim_start(text) ==
    IF text = << >> THEN text
    ELSE IF IsSpace(Head(text)) THEN trim_start(Tail(text)) ELSE text

RECURSIVE trim_end(_)
trim_end(text) ==
    IF text = << >> THEN text
    ELSE IF IsSpace(text[Len(text)]) THEN trim_end(SubSeq(text, 1, Len(text) - 1))
    ELSE text

\* str::trim
trim(text) == trim_end(trim_start(text))

\* str::to_lowercase, on the letters the input lines use
to_lowercase(text) ==
    [i \in 1..Len(text) |->
        CASE text[i] = "A" -> "a"
          [] text[i] = "C" -> "c"
          [] text[i] = "X" -> "x"
          [] OTHER -> text[i]]

\* the end of the longest run of digits / of white space that starts at `from`
DigitRunEnd(text, from) ==
    CHOOSE j \in (from - 1)..Len(text) :
        /\ \A k \in from..j : IsDigit(text[k])
        /\ j = Len(text) \/ ~IsDigit(text[j + 1])

SpaceRunEnd(text, from) ==
    CHOOSE j \in (from - 1)..Len(text) :
        /\ \A k \in from..j : IsSpace(text[k])
        /\ j = Len(text) \/ ~IsSpace(text[j + 1])

\* ACTION_REGEX.captures(action) for (\d+)(\s*\d*): the leftmost match, each
\* repetition as long as it can be
captures(text) ==
    IF \A i \in 1..Len(text) : ~IsDigit(text[i])
    THEN [matched |-> FALSE, group1 |-> << >>, group2 |-> << >>]
    ELSE LET start   == CHOOSE i \in 1..Len(text) :
                            IsDigit(text[i]) /\ \A k \in 1..(i - 1) : ~IsDigit(text[k])
             id_end  == DigitRunEnd(text, start)
             gap_end == SpaceRunEnd(text, id_end + 1)
             qty_end == DigitRunEnd(text, gap_end + 1)
         IN  [matched |-> TRUE,
              group1 |-> SubSeq(text, start, id_end),
              group2 |-> SubSeq(text, id_end + 1, qty_end)]

DigitValue(ch) == CHOOSE d \in 0..9 : DigitChars[d + 1] = ch

RECURSIVE strip_zeros(_)
strip_zeros(digits) ==
    IF Len(digits) > 1 /\ Head(digits) = "0" THEN strip_zeros(Tail(digits)) ELSE digits

RECURSIVE digits_value(_)
digits_value(digits) ==
    IF digits = << >> THEN 0
    ELSE 10 * digits_value(SubSeq(digits, 1, Len(digits) - 1))
           + DigitValue(digits[Len(digits)])

\* u32::MAX = 4294967295
U32_MAX_DIGITS == << "4", "2", "9", "4", "9", "6", "7", "2", "9", "5" >>

exceeds_u32(digits) ==
    \/ Len(digits) > Len(U32_MAX_DIGITS)
    \/ /\ Len(digits) = Len(U32_MAX_DIGITS)
       /\ \E i \in 1..Len(digits) :
             /\ \A k \in 1..(i - 1) : digits[k] = U32_MAX_DIGITS[k]
             /\ DigitValue(digits[i]) > DigitValue(U32_MAX_DIGITS[i])

\* text.parse::<u32>(): Err for no digits, a character that is not a digit, or a
\* value above u32::MAX; an optional leading "+" is accepted
parse_u32(text) ==
    LET digits == IF text # << >> /\ Head(text) = "+" THEN Tail(text) ELSE text
    IN  IF digits = << >> \/ \E i \in 1..Len(digits) : ~IsDigit(digits[i])
        THEN [ok |-> FALSE, value |-> 0]
        ELSE IF exceeds_u32(strip_zeros(digits)) THEN [ok |-> FALSE, value |-> 0]
        ELSE [ok |-> TRUE, value |-> digits_value(strip_zeros(digits))]

\* process_action returned before any engine call
NotDispatched(self, cause) ==
    [op |-> "none", quantity |-> 0, out |-> Err(self, cause)]

process_action(self, text) ==
    LET found == captures(text)
        maybe_quantity == parse_u32(trim(found.group2))
        id == found.group1
    IN  IF ~found.matched THEN NotDispatched(self, InvalidAction)
        ELSE IF id \in {<< "1" >>, << "3" >>, << "4" >>, << "5" >>} /\ maybe_quantity.ok
        THEN NotDispatched(self, ExtraneousQuantity)
        ELSE IF id \in {<< "2" >>, << "6" >>} /\ ~maybe_quantity.ok
        THEN NotDispatched(self, InvalidQuantity)
        ELSE IF id \notin {<< "1" >>, << "2" >>, << "3" >>, << "4" >>, << "5" >>, << "6" >>}
        THEN NotDispatched(self, InvalidAction)
        ELSE CASE id = << "1" >> ->
                    [op |-> "cook", quantity |-> 0, out |-> execute_cook(self)]
               [] id = << "2" >> ->
                    [op |-> "buy_cheese", quantity |-> maybe_quantity.value,
                     out |-> execute_buy_cheese(self, maybe_quantity.value)]
               [] id = << "3" >> ->
                    [op |-> "sell_cheese", quantity |-> 0, out |-> execute_sell_cheese(self)]
               [] id = << "4" >> ->
                    [op |-> "publish_recipe", quantity |-> 0,
                     out |-> execute_publish_recipe(self)]
               [] id = << "5" >> ->
                    [op |-> "publish_cookbook", quantity |-> 0,
                     out |-> execute_publish_cookbook(self)]
               [] id = << "6" >> ->
                    [op |-> "buy_croissants", quantity |-> maybe_quantity.value,
                     out |-> execute_buy_croissants(self, maybe_quantity.value)]

(***************************************************************************)
(* main: the loop `while !game.is_game_over()` reads a line, trims and     *)
(* lower-cases it and hands it to process_action.  The lines are an action *)
(* id 1..7, then nothing, or a quantity (2, 03, or eleven 9s) with or      *)
(* without a blank before it, ended by a newline; and some other lines,    *)
(* the empty read at end of input and the "error" of a failed read among   *)
(* them.                                                                   *)
(***************************************************************************)
LineIds == { << "1" >>, << "2" >>, << "3" >>, << "4" >>, << "5" >>, << "6" >>, << "7" >> }

LineGaps == { << >>, << " " >> }

LineQuantities ==
    { << >>, << "2" >>, << "0", "3" >>,
      << "9", "9", "9", "9", "9", "9", "9", "9", "9", "9", "9" >> }

Lines ==
    { id \o gap \o quantity \o << "\n" >> :
        id \in LineIds, gap \in LineGaps, quantity \in LineQuantities }
    \cup { << >>,
           << "e", "r", "r", "o", "r" >>,
           << "C", "o", "o", "k", "\n" >>,
           << " ", "4", "\t", "\n" >>,
           << "X", "2", " ", " ", "2", "A", "\n" >>,
           << "2", " ", "-", "3", "\n" >> }

\* the configurations main is run with
MainConfigs ==
    { c \in Configs :
        /\ c.starting_money = 1000
        /\ c.cheese_mature_turns = 1
        /\ c.croissant_minimum_price <= c.croissant_starting_price }

MainInit ==
    /\ config \in MainConfigs
    /\ overflow_checks \in BOOLEAN
    /\ turn = new(config).turn
    /\ money = new(config).money
    /\ cheeses = new(config).cheeses
    /\ recipes = new(config).recipes
    /\ cookbooks = new(config).cookbooks
    /\ croissant_price = new(config).croissant_price
    /\ croissants = new(config).croissants
    /\ panicked = FALSE
    /\ call = [op |-> "new", quantity |-> 0]
    /\ result = Ok
    /\ prev = new(config)
    /\ bought_at = << >>
    /\ accepted = 0
    /\ pc = "prompt"
    /\ action = << >>

\* let action = prompt_user().to_lowercase();
Prompt ==
    /\ pc = "prompt" /\ ~panicked
    /\ ~is_game_over(Self)
    /\ \E line \in Lines : action' = to_lowercase(trim(line))
    /\ pc' = "process"
    /\ UNCHANGED << config, overflow_checks, turn, money, cheeses, recipes, cookbooks,
                    croissant_price, croissants, panicked, call, result, prev,
                    bought_at, accepted >>

\* let result = process_action(&mut game, &action);
Process ==
    /\ pc = "process"
    /\ LET done == process_action(Self, action)
       IN  Called(done.op, done.quantity, done.out)
    /\ pc' = "prompt"
    /\ UNCHANGED action

\* the loop ends: println!("Game over! ...")
Exit ==
    /\ pc = "prompt" /\ ~panicked
    /\ is_game_over(Self)
    /\ pc' = "done"
    /\ UNCHANGED << config, overflow_checks, turn, money, cheeses, recipes, cookbooks,
                    croissant_price, croissants, panicked, call, result, prev,
                    bought_at, accepted, action >>

MainNext ==
    \/ Prompt
    \/ Process
    \/ Exit

MainSpec == MainInit /\ [][MainNext]_vars

(***************************************************************************)
(* A request, as a user writes it: an action id, and possibly a quantity   *)
(* after white space, both written in digits.                              *)
(***************************************************************************)
IsDigits(text) == text # << >> /\ \A i \in 1..Len(text) : IsDigit(text[i])

\* the end of the word that starts at `from`
WordEnd(text, from) ==
    CHOOSE j \in (from - 1)..Len(text) :
        /\ \A k \in from..j : ~IsSpace(text[k])
        /\ j = Len(text) \/ IsSpace(text[j + 1])

RequestId == SubSeq(action, 1, WordEnd(action, 1))
RequestRest == trim_start(SubSeq(action, Len(RequestId) + 1, Len(action)))
QuantityGiven == RequestRest # << >>
IsRequest == IsDigits(RequestId) /\ (QuantityGiven => IsDigits(RequestRest))

\* the last line read has been processed
Processed == pc # "process" /\ Called_

NotPassedOn == call.op = "none" /\ Self = prev

OperationOf(id) ==
    CASE id = << "1" >> -> "cook"
      [] id = << "2" >> -> "buy_cheese"
      [] id = << "3" >> -> "sell_cheese"
      [] id = << "4" >> -> "publish_recipe"
      [] id = << "5" >> -> "publish_cookbook"
      [] id = << "6" >> -> "buy_croissants"
      [] OTHER -> "none"

DispatchedAsClaimed ==
    IF OperationOf(RequestId) = "none" THEN result = InvalidAction /\ NotPassedOn
    ELSE IF OperationOf(RequestId) \in {"cook", "sell_cheese", "publish_recipe",
                                         "publish_cookbook"} /\ QuantityGiven
    THEN result = ExtraneousQuantity /\ NotPassedOn
    ELSE IF OperationOf(RequestId) \in {"buy_cheese", "buy_croissants"} /\ ~QuantityGiven
    THEN result = InvalidQuantity /\ NotPassedOn
    ELSE /\ call.op = OperationOf(RequestId)
         /\ QuantityGiven => fmt_unsigned(call.quantity) = strip_zeros(RequestRest)

(***************************************************************************)
(* C14  process_action rejects a request before it reaches the engine,     *)
(* leaving the game unchanged, when the action id is not one of 1..6       *)
(* (InvalidAction), when a quantity is given with action 1, 3, 4 or 5      *)
(* (ExtraneousQuantity), or when no quantity is given with action 2 or 6   *)
(* (InvalidQuantity); every other request is passed to exactly the engine  *)
(* operation of its id, with its quantity.                                 *)
(***************************************************************************)
RequestsDispatchedById ==
    (Processed /\ IsRequest) => DispatchedAsClaimed

\* the same, for the requests whose quantity, if any, fits a u32: holds
SmallQuantityRequestsDispatchedById ==
    ( /\ Processed /\ IsRequest
      /\ QuantityGiven => ~exceeds_u32(strip_zeros(RequestRest)) )
        => DispatchedAsClaimed

\* "1 99999999999": cook is executed
HugeQuantityWithCookReached ==
    /\ Processed /\ RequestId = << "1" >> /\ QuantityGiven
    /\ call.op = "cook" /\ result = Ok

\* "2 03" buys three cheese; " 4 " publishes a recipe
DispatchReached ==
    \/ /\ Processed /\ action = << "2", " ", "0", "3" >>
       /\ call = [op |-> "buy_cheese", quantity |-> 3] /\ result = Ok
    \/ /\ Processed /\ action = << "4" >> /\ call.op = "publish_recipe"
==========================================================================
